---- MODULE Spec2Model ----
(***************************************************************************)
(* Two post-detection engines of the fraud pipeline:                       *)
(*   validateFanInTwoPhase                     (fan-in-validation.ts)      *)
(*   adjustScoresUsingRelationshipIntelligence (relationship-intelligence) *)
(*                                                                         *)
(* Modelling conventions                                                   *)
(*  - The model's clock unit is one hour: every *_MS constant of the       *)
(*    source is written in hours (72 h, 24 h, 30/60/120 days).  All the    *)
(*    comparisons of the source are invariant under this change of unit.   *)
(*  - A timestamp string is a record [day, hour]; it parses when its hour  *)
(*    field is a clock hour (0..23) and is an Invalid Date otherwise.      *)
(*  - Amounts and scores are integers; the real arithmetic of the source   *)
(*    (means, ratios, square roots, Math.round) is evaluated exactly by    *)
(*    cross-multiplication.                                                *)
(*  - An explanation string is the sequence of the fragments appended to   *)
(*    it; string concatenation is sequence concatenation.                  *)
(*  - An absent optional field holds the value Undefined/UndefinedChecks.  *)
(***************************************************************************)
EXTENDS Integers, Sequences, FiniteSets, TLC

VARIABLES
    accounts,       \* account_id -> AccountNode, the collection both engines mutate
    transactions,   \* RawTransaction[], in listing order
    cycles,         \* string[][]  detected cycles
    shellChains,    \* string[][]  detected shell chains
    graph,          \* adjacency: sender -> (receiver -> indices of their transactions)
    fanOutMap,      \* keys of the fan-out map (the only part that is read)
    candidates,     \* result of the last identifyAggregationCandidates call
    calls,          \* history: the engines invoked so far, in order
    prev,           \* history: the accounts as they were before the last call
    accounts0       \* history: the accounts as constructed

vars == <<accounts, transactions, graph, cycles, shellChains, fanOutMap,
          candidates, calls, prev, accounts0>>

-----------------------------------------------------------------------------
(* Bounds of the model *)

MaxCalls == 2
MaxWindowTx == 5
MaxPairTx == 11

-----------------------------------------------------------------------------
(* Constants of fan-in-validation.ts *)

FAN_IN_WINDOW_MS == 72
MIN_UNIQUE_SENDERS == 3
RAPID_OUTFLOW_WINDOW_MS == 24
LOW_ACTIVITY_TX_THRESHOLD == 3
AMOUNT_TOLERANCE == 20      \* per cent (0.20)
RAPID_OUTFLOW_RATIO == 50   \* per cent (0.50)

(* Constants of relationship-intelligence.ts *)

MIN_RECURRING_TX_COUNT == 3
MIN_RECURRING_SPAN_MS == 30 * 24
MAX_TOTAL_REDUCTION == 50
DURATION_TIER_1_MS == 60 * 24
DURATION_TIER_2_MS == 120 * 24
CV_THRESHOLD == 20              \* per cent (0.20)
PERIODICITY_MATCH_RATIO == 70   \* per cent (0.70)
PERIODICITY_TOLERANCE == 25     \* per cent (0.25)

FanInAlgorithm == "Two-Phase Fan-In Validation"
RIAlgorithm == "relationship_intelligence"

Undefined == "undefined"
UndefinedChecks == <<"undefined">>

-----------------------------------------------------------------------------
(* Numbers with NaN.  NaN is the result of getTime() on an Invalid Date;   *)
(* it propagates through + and - and makes every comparison false.         *)

NaN == -999999

NSub(a, b) == IF a = NaN \/ b = NaN THEN NaN ELSE a - b
NAdd(a, b) == IF a = NaN \/ b = NaN THEN NaN ELSE a + b
NGt(a, b) == a # NaN /\ b # NaN /\ a > b
NGe(a, b) == a # NaN /\ b # NaN /\ a >= b
NLe(a, b) == a # NaN /\ b # NaN /\ a <= b

toEpoch(ts) == IF ts.hour \in 0..23 THEN ts.day * 24 + ts.hour ELSE NaN

Epoch(txs, i) == toEpoch(txs[i].timestamp)

Max2(a, b) == IF a >= b THEN a ELSE b
Min2(a, b) == IF a <= b THEN a ELSE b

Range(s) == {s[i] : i \in DOMAIN s}

RECURSIVE SumAmounts(_, _)
SumAmounts(txs, idxs) ==
    IF idxs = <<>> THEN 0
    ELSE txs[Head(idxs)].amount + SumAmounts(txs, Tail(idxs))

(* Indices of txs, in listing order, that satisfy the test given as a set *)
RECURSIVE FilterIdx(_, _, _)
FilterIdx(n, keep, i) ==
    IF i > n THEN <<>>
    ELSE (IF i \in keep THEN <<i>> ELSE <<>>) \o FilterIdx(n, keep, i + 1)

-----------------------------------------------------------------------------
(* Array.prototype.sort with the comparator (a, b) => key(a) - key(b).     *)
(* A NaN comparison result counts as 0.  The sort is stable when the       *)
(* comparator is consistent; when NaN keys make it inconsistent the order  *)
(* is implementation-defined: it is then the order of the ranking `perm`.  *)

RECURSIVE InsertBy(_, _, _)
InsertBy(key, x, s) ==
    IF s = <<>> THEN <<x>>
    ELSE IF key[x] < key[Head(s)] THEN <<x>> \o s
    ELSE <<Head(s)>> \o InsertBy(key, x, Tail(s))

RECURSIVE SortBy(_, _)
SortBy(key, s) ==
    IF s = <<>> THEN <<>>
    ELSE InsertBy(key, s[Len(s)], SortBy(key, SubSeq(s, 1, Len(s) - 1)))

ConsistentKeys(key, s) ==
    \/ \A i \in Range(s) : key[i] # NaN
    \/ \A i, j \in Range(s) : (key[i] # NaN /\ key[j] # NaN) => key[i] = key[j]

SortOutcome(key, s, perm) ==
    IF \A i \in Range(s) : key[i] # NaN THEN SortBy(key, s)
    ELSE IF ConsistentKeys(key, s) THEN s
    ELSE SortBy(perm, s)

EpochKey(txs) == [i \in DOMAIN txs |-> Epoch(txs, i)]

IdentityPerm(txs) == [i \in DOMAIN txs |-> i]

-----------------------------------------------------------------------------
(* Phase 1: identifyAggregationCandidates *)

(* Keys of byReceiver in Map insertion order: first appearance in the list *)
RECURSIVE ReceiverOrder(_, _, _)
ReceiverOrder(txs, i, seen) ==
    IF i > Len(txs) THEN <<>>
    ELSE IF txs[i].receiver_id \in seen THEN ReceiverOrder(txs, i + 1, seen)
    ELSE <<txs[i].receiver_id>>
         \o ReceiverOrder(txs, i + 1, seen \cup {txs[i].receiver_id})

(* byReceiver.get(r): the indices of r's incoming transactions, as listed *)
ByReceiver(txs, r) ==
    FilterIdx(Len(txs), {i \in DOMAIN txs : txs[i].receiver_id = r}, 1)

SortedIncoming(txs, r, perm) == SortOutcome(EpochKey(txs), ByReceiver(txs, r), perm)

(* Variant: the left pointer never moves, so a window spans any width *)
SlideLeft_NoSlide(txs, sorted, left, right) == left

(* Variant: `>=` for `>`, so receipts exactly 72 hours apart are split *)
RECURSIVE SlideLeft_Strict(_, _, _, _)
SlideLeft_Strict(txs, sorted, left, right) ==
    IF /\ left < right
       /\ NGe(NSub(Epoch(txs, sorted[right]), Epoch(txs, sorted[left])),
              FAN_IN_WINDOW_MS)
    THEN SlideLeft_Strict(txs, sorted, left + 1, right)
    ELSE left

(* The while loop that slides the left pointer for a given right pointer *)
RECURSIVE SlideLeft(_, _, _, _)
SlideLeft(txs, sorted, left, right) ==
    IF /\ left < right
       /\ NGt(NSub(Epoch(txs, sorted[right]), Epoch(txs, sorted[left])),
              FAN_IN_WINDOW_MS)
    THEN SlideLeft(txs, sorted, left + 1, right)
    ELSE left

SendersInWindow(txs, sorted, left, right) ==
    {txs[sorted[i]].sender_id : i \in left..right}

NoBest == [found |-> FALSE, senders |-> {}, left |-> 1, right |-> 1]

(* The qualifying test and the strictly-greater update of the best window *)
UpdateBest(best, senders, left, right) ==
    IF /\ Cardinality(senders) >= MIN_UNIQUE_SENDERS
       /\ (~best.found \/ Cardinality(senders) > Cardinality(best.senders))
    THEN [found |-> TRUE, senders |-> senders, left |-> left, right |-> right]
    ELSE best

(* The for loop over right; positions are 1-based *)
RECURSIVE ScanWindows(_, _, _, _, _)
ScanWindows(txs, sorted, left, right, best) ==
    IF right > Len(sorted) THEN best
    ELSE LET l == SlideLeft(txs, sorted, left, right)
             w == SendersInWindow(txs, sorted, l, right)
         IN  ScanWindows(txs, sorted, l, right + 1, UpdateBest(best, w, l, right))

BestWindow(txs, sorted) == ScanWindows(txs, sorted, 1, 1, NoBest)

(* The candidate record; totalReceived sums the amounts of the window's  *)
(* transactions whose sender is in bestSenders                            *)
MakeCandidate(txs, r, sorted, best) ==
    [accountId |-> r,
     senders |-> best.senders,
     totalReceived |-> LET pos == FilterIdx(Len(sorted),
                              {i \in best.left..best.right :
                                   txs[sorted[i]].sender_id \in best.senders}, 1)
                       IN SumAmounts(txs, [k \in DOMAIN pos |-> sorted[pos[k]]]),
     windowStart |-> Epoch(txs, sorted[best.left]),
     windowEnd |-> Epoch(txs, sorted[best.right])]

RECURSIVE CandidatesFor(_, _, _)
CandidatesFor(txs, receivers, perm) ==
    IF receivers = <<>> THEN <<>>
    ELSE LET r == Head(receivers)
             sorted == SortedIncoming(txs, r, perm)
             best == BestWindow(txs, sorted)
         IN  (IF best.found THEN <<MakeCandidate(txs, r, sorted, best)>> ELSE <<>>)
             \o CandidatesFor(txs, Tail(receivers), perm)

identifyAggregationCandidates(txs, perm) ==
    CandidatesFor(txs, ReceiverOrder(txs, 1, {}), perm)

-----------------------------------------------------------------------------
(* Phase 2: the four corroboration checks *)

(* Nodes of a string[][] collected into a Set *)
NodesOf(lists) == UNION {Range(lists[i]) : i \in DOMAIN lists}

(* Variant: the lower bound itself, without the factor 0.5 *)
PreservesAmount_NoHalf(outAmount, totalReceived) ==
    outAmount * 100 >= totalReceived * (100 - AMOUNT_TOLERANCE)

(* outAmount >= totalReceived * (1 - AMOUNT_TOLERANCE) * 0.5, in per cent *)
PreservesAmount(outAmount, totalReceived) ==
    outAmount * 100 * 2 >= totalReceived * (100 - AMOUNT_TOLERANCE)

checkShellChainInvolvement(txs, candidateId, totalReceived, g, accountMap) ==
    /\ candidateId \in DOMAIN g
    /\ \E neighborId \in DOMAIN g[candidateId] :
          /\ neighborId \in DOMAIN accountMap
          /\ ~(accountMap[neighborId].total_transactions > LOW_ACTIVITY_TX_THRESHOLD)
          /\ PreservesAmount(SumAmounts(txs, g[candidateId][neighborId]), totalReceived)
          /\ neighborId \in DOMAIN g
          /\ \E nextHop \in DOMAIN g[neighborId] : nextHop # candidateId

checkCycleParticipation(candidateId, cycleNodes, g) ==
    \/ candidateId \in cycleNodes
    \/ /\ candidateId \in DOMAIN g
       /\ \E neighborId \in DOMAIN g[candidateId] : neighborId \in cycleNodes

checkRapidLayeredOutflow(txs, candidateId, candidate) ==
    LET outgoingAfterAggregation ==
            FilterIdx(Len(txs),
                {i \in DOMAIN txs :
                    /\ txs[i].sender_id = candidateId
                    /\ NGe(Epoch(txs, i), candidate.windowStart)
                    /\ NLe(Epoch(txs, i),
                           NAdd(candidate.windowEnd, RAPID_OUTFLOW_WINDOW_MS))}, 1)
    IN  /\ outgoingAfterAggregation # <<>>
        /\ SumAmounts(txs, outgoingAfterAggregation) * 100
              >= candidate.totalReceived * RAPID_OUTFLOW_RATIO

checkRoleConflict(candidateId, shellNodes, fanOutNodes, cycleNodes) ==
    \/ candidateId \in shellNodes
    \/ candidateId \in fanOutNodes
    \/ candidateId \in cycleNodes

(* triggeredChecks, pushed in the order the checks run *)
TriggeredChecks(txs, candidate, g, accountMap, cycleNodes, shellNodes, fanOutNodes) ==
    (IF checkShellChainInvolvement(txs, candidate.accountId,
                                   candidate.totalReceived, g, accountMap)
        THEN <<"shell_chain_involvement">> ELSE <<>>)
    \o (IF checkCycleParticipation(candidate.accountId, cycleNodes, g)
        THEN <<"cycle_ring_participation">> ELSE <<>>)
    \o (IF checkRapidLayeredOutflow(txs, candidate.accountId, candidate)
        THEN <<"rapid_layered_outflow">> ELSE <<>>)
    \o (IF checkRoleConflict(candidate.accountId, shellNodes, fanOutNodes, cycleNodes)
        THEN <<"role_conflict">> ELSE <<>>)

-----------------------------------------------------------------------------
(* Explanation fragments *)

Fragment(engine, label, detail, reduction, from, to, parts) ==
    [engine |-> engine, label |-> label, detail |-> detail,
     reduction |-> reduction, from |-> from, to |-> to, parts |-> parts]

(* `. Fan-In Validation: ${classLabel}. ${checksStr}` *)
FanInFragment(classification, triggeredChecks) ==
    Fragment("Fan-In Validation",
             IF classification = "confirmed_money_laundering"
                 THEN "CONFIRMED MONEY LAUNDERING"
                 ELSE "AGGREGATION CANDIDATE (unconfirmed)",
             IF Len(triggeredChecks) > 0
                 THEN <<"Corroboration">> \o triggeredChecks
                 ELSE <<"No corroboration evidence found">>,
             0, 0, 0, <<>>)

-----------------------------------------------------------------------------
(* validateFanInTwoPhase *)

(* Variant: `>=` for `>`, so an empty list of checks confirms *)
Classification_AlwaysConfirmed(triggeredChecks) ==
    IF Len(triggeredChecks) >= 0 THEN "confirmed_money_laundering"
    ELSE "aggregation_candidate"

Classification(triggeredChecks) ==
    IF Len(triggeredChecks) > 0 THEN "confirmed_money_laundering"
    ELSE "aggregation_candidate"

PushFanInAlgorithm(algos) ==
    IF FanInAlgorithm \in Range(algos) THEN algos ELSE Append(algos, FanInAlgorithm)

(* Variant: a confirmed classification also raises the fraud flag *)
ClassifyAccount_FlagsSuspicious(account, triggeredChecks) ==
    [account EXCEPT
        !.corroboration_checks = triggeredChecks,
        !.fan_in_classification = Classification(triggeredChecks),
        !.is_suspicious = @ \/ Len(triggeredChecks) > 0,
        !.triggered_algorithms = PushFanInAlgorithm(@),
        !.explanation = Append(@, FanInFragment(Classification(triggeredChecks),
                                                triggeredChecks))]

(* The body of the loop over candidates, for one candidate with an account *)
ClassifyAccount(account, triggeredChecks) ==
    [account EXCEPT
        !.corroboration_checks = triggeredChecks,
        !.fan_in_classification = Classification(triggeredChecks),
        !.triggered_algorithms = PushFanInAlgorithm(@),
        !.explanation = Append(@, FanInFragment(Classification(triggeredChecks),
                                                triggeredChecks))]

RECURSIVE CorroborateAll(_, _, _, _, _, _, _)
CorroborateAll(accts, txs, cands, g, cycleNodes, shellNodes, fanOutNodes) ==
    IF cands = <<>> THEN accts
    ELSE LET candidate == Head(cands)
             id == candidate.accountId
             next ==
                 IF id \notin DOMAIN accts THEN accts
                 ELSE [accts EXCEPT ![id] =
                         ClassifyAccount(@, TriggeredChecks(txs, candidate, g, accts,
                                              cycleNodes, shellNodes, fanOutNodes))]
         IN  CorroborateAll(next, txs, Tail(cands), g, cycleNodes, shellNodes, fanOutNodes)

validateFanInTwoPhase(accts, txs, g, cyc, chains, fanOut, perm) ==
    CorroborateAll(accts, txs, identifyAggregationCandidates(txs, perm), g,
                   NodesOf(cyc), NodesOf(chains), fanOut)

-----------------------------------------------------------------------------
(* adjustScoresUsingRelationshipIntelligence, steps 1 and 2: pair statistics *)

(* Math.round of the fraction num/den (den > 0): the nearest integer, a   *)
(* half rounding up                                                       *)
MathRound(num, den) == (2 * num + den) \div (2 * den)

(* The directed pairs that occur; pairKey is injective on ids without '|' *)
PairKeys(txs) == {<<txs[i].sender_id, txs[i].receiver_id>> : i \in DOMAIN txs}

PairIdx(txs, key) ==
    FilterIdx(Len(txs),
        {i \in DOMAIN txs : txs[i].sender_id = key[1] /\ txs[i].receiver_id = key[2]}, 1)

(* PairStats of one pair: amounts in listing order, timestamps sorted by  *)
(* (a, b) => a - b, spanMs = last - first                                 *)
PairStats(txs, key, perm) ==
    LET idx == PairIdx(txs, key)
        sortedIdx == SortOutcome(EpochKey(txs), idx, perm)
        ts == [k \in DOMAIN sortedIdx |-> Epoch(txs, sortedIdx[k])]
    IN  [sender |-> key[1],
         receiver |-> key[2],
         amounts |-> [k \in DOMAIN idx |-> txs[idx[k]].amount],
         timestamps |-> ts,
         spanMs |-> NSub(ts[Len(ts)], ts[1])]

Qualifies(stats) ==
    /\ Len(stats.amounts) >= MIN_RECURRING_TX_COUNT
    /\ NGe(stats.spanMs, MIN_RECURRING_SPAN_MS)

QualifyingPairs(txs, perm) ==
    {st \in {PairStats(txs, key, perm) : key \in PairKeys(txs)} : Qualifies(st)}

-----------------------------------------------------------------------------
(* Step 3: the four sub-scores of a pair *)

(* A) Math.min(25, Math.round(10 + ((n - 3) / 7) * 15)) *)
RecurringReduction(n) == Min2(25, MathRound(10 * 7 + (n - 3) * 15, 7))

(* B) *)
DurationReduction(spanMs) ==
    IF NGe(spanMs, DURATION_TIER_2_MS) THEN 20
    ELSE IF NGe(spanMs, DURATION_TIER_1_MS) THEN 10
    ELSE 0

RECURSIVE SeqSum(_)
SeqSum(s) == IF s = <<>> THEN 0 ELSE Head(s) + SeqSum(Tail(s))

RECURSIVE NSeqSum(_)
NSeqSum(s) == IF s = <<>> THEN 0 ELSE NAdd(Head(s), NSeqSum(Tail(s)))

(* C) With S the sum and Q the sum of squares of the n amounts,           *)
(*    cv^2 = (n*Q - S^2) / S^2.  cv < CV_THRESHOLD is compared squared,   *)
(*    and Math.round(15 * (1 - cv / CV_THRESHOLD)) is the largest k with  *)
(*    15 * (1 - cv / CV_THRESHOLD) >= k - 1/2, that is, with              *)
(*    c = 3000 / CV_THRESHOLD (= 150), (c * cv)^2 <= (31 - 2k)^2.         *)
ConsistencyReduction(amounts) ==
    LET n == Len(amounts)
        S == SeqSum(amounts)
        Q == SeqSum([k \in DOMAIN amounts |-> amounts[k] * amounts[k]])
        D == n * Q - S * S
        c == 3000 \div CV_THRESHOLD
        Reaches(k) == c * c * D <= (31 - 2 * k) * (31 - 2 * k) * S * S
    IN  IF n >= 2 /\ S > 0 /\ D * 100 * 100 < CV_THRESHOLD * CV_THRESHOLD * S * S
        THEN CHOOSE k \in 0..15 : Reaches(k) /\ \A j \in (k + 1)..15 : ~Reaches(j)
        ELSE 0

(* D) gaps, their average G/g, the gaps within +-25 % of it, the ratio m/g *)
PeriodicityReduction(timestamps) ==
    IF Len(timestamps) >= 3
    THEN LET gaps == [i \in 1..(Len(timestamps) - 1) |->
                         NSub(timestamps[i + 1], timestamps[i])]
             g == Len(gaps)
             G == NSeqSum(gaps)
             m == Cardinality({i \in DOMAIN gaps :
                     /\ gaps[i] * g * 100 >= G * (100 - PERIODICITY_TOLERANCE)
                     /\ gaps[i] * g * 100 <= G * (100 + PERIODICITY_TOLERANCE)})
         IN  IF NGt(G, 0) /\ m * 100 >= PERIODICITY_MATCH_RATIO * g
             THEN MathRound(10 * (100 - PERIODICITY_MATCH_RATIO) * g
                                + 10 * (100 * m - PERIODICITY_MATCH_RATIO * g),
                            (100 - PERIODICITY_MATCH_RATIO) * g)
             ELSE 0
    ELSE 0

PairReduction(stats) ==
    [recurring |-> RecurringReduction(Len(stats.amounts)),
     duration |-> DurationReduction(stats.spanMs),
     consistency |-> ConsistencyReduction(stats.amounts),
     periodicity |-> PeriodicityReduction(stats.timestamps)]

SetMax(S) == IF S = {} THEN 0 ELSE CHOOSE x \in S : \A y \in S : y <= x

(* accountReductions: per category the maximum over the account's pairs *)
HasReduction(qualifying, id) ==
    \E st \in qualifying : st.sender = id \/ st.receiver = id

AccountReduction(qualifying, id) ==
    LET mine == {PairReduction(st) : st \in {q \in qualifying : q.sender = id \/ q.receiver = id}}
    IN  [recurring |-> SetMax({r.recurring : r \in mine}),
         duration |-> SetMax({r.duration : r \in mine}),
         consistency |-> SetMax({r.consistency : r \in mine}),
         periodicity |-> SetMax({r.periodicity : r \in mine})]

(* Variant: the sum of the sub-scores without the cap *)
TotalReduction_NoCap(r) ==
    r.recurring + r.duration + r.consistency + r.periodicity

TotalReduction(r) ==
    Min2(MAX_TOTAL_REDUCTION, r.recurring + r.duration + r.consistency + r.periodicity)

-----------------------------------------------------------------------------
(* Step 4: apply the capped reduction to one account *)

Parts(r) ==
    (IF r.recurring > 0 THEN <<[name |-> "recurring_pair", value |-> r.recurring]>> ELSE <<>>)
    \o (IF r.duration > 0 THEN <<[name |-> "long_relationship", value |-> r.duration]>> ELSE <<>>)
    \o (IF r.consistency > 0 THEN <<[name |-> "amount_consistency", value |-> r.consistency]>> ELSE <<>>)
    \o (IF r.periodicity > 0 THEN <<[name |-> "monthly_periodicity", value |-> r.periodicity]>> ELSE <<>>)

(* ` | Relationship Intelligence: score reduced by N (old->new) [detail]` *)
RIFragment(totalReduction, oldScore, newScore, r) ==
    Fragment("Relationship Intelligence", "score reduced", <<>>,
             totalReduction, oldScore, newScore, Parts(r))

NewScore(oldScore, totalReduction) == Max2(0, oldScore - totalReduction)

PushRIAlgorithm(algos) == Append(algos, RIAlgorithm)

ApplyReduction(account, r) ==
    LET totalReduction == TotalReduction(r)
        oldScore == account.suspicion_score
        newScore == NewScore(oldScore, totalReduction)
    IN  [account EXCEPT
            !.suspicion_score = newScore,
            !.triggered_algorithms = PushRIAlgorithm(@),
            !.explanation = Append(@, RIFragment(totalReduction, oldScore, newScore, r)),
            !.is_suspicious = newScore > 0]

(* Variant: without the cycle-member test *)
AdjustAccount_NoCycleCheck(account, cycleMembers, qualifying) ==
    IF account.suspicion_score <= 0 THEN account
    ELSE IF ~HasReduction(qualifying, account.account_id) THEN account
    ELSE IF TotalReduction(AccountReduction(qualifying, account.account_id)) <= 0
         THEN account
    ELSE ApplyReduction(account, AccountReduction(qualifying, account.account_id))

(* Variant: accounts the fan-in engine confirmed are not dampened *)
AdjustAccount_SkipsConfirmed(account, cycleMembers, qualifying) ==
    IF account.account_id \in cycleMembers THEN account
    ELSE IF account.fan_in_classification = "confirmed_money_laundering" THEN account
    ELSE IF account.suspicion_score <= 0 THEN account
    ELSE IF ~HasReduction(qualifying, account.account_id) THEN account
    ELSE IF TotalReduction(AccountReduction(qualifying, account.account_id)) <= 0
         THEN account
    ELSE ApplyReduction(account, AccountReduction(qualifying, account.account_id))

(* The body of the loop over accounts, with its four early `continue`s *)
AdjustAccount(account, cycleMembers, qualifying) ==
    IF account.account_id \in cycleMembers THEN account
    ELSE IF account.suspicion_score <= 0 THEN account
    ELSE IF ~HasReduction(qualifying, account.account_id) THEN account
    ELSE IF TotalReduction(AccountReduction(qualifying, account.account_id)) <= 0
         THEN account
    ELSE ApplyReduction(account, AccountReduction(qualifying, account.account_id))

adjustScoresUsingRelationshipIntelligence(accts, txs, cycleMembers, perm) ==
    LET qualifying == QualifyingPairs(txs, perm)
    IN  [id \in DOMAIN accts |-> AdjustAccount(accts[id], cycleMembers, qualifying)]

-----------------------------------------------------------------------------
(* Inputs *)

AccountIds == {"A", "B", "C", "R"}

At(d, h) == [day |-> d, hour |-> h]

Tx(s, r, a, ts) == [sender_id |-> s, receiver_id |-> r, amount |-> a, timestamp |-> ts]

(* The batch is any sub-list of this ledger, in its listing order *)
Ledger ==
    << Tx("A", "R", 2, At(0, 0)),
       Tx("B", "R", 1, At(0, 5)),
       Tx("C", "R", 1, At(1, 0)),
       Tx("C", "R", 1, At(4, 0)),
       Tx("A", "R", 2, At(30, 0)),
       Tx("A", "R", 2, At(60, 0)),
       Tx("A", "R", 3, At(120, 0)),
       Tx("R", "A", 2, At(1, 5)),
       Tx("A", "B", 1, At(2, 0)) >>

SubLists(list) ==
    {[k \in DOMAIN FilterIdx(Len(list), keep, 1) |-> list[FilterIdx(Len(list), keep, 1)[k]]] :
        keep \in SUBSET DOMAIN list}

Scores == {0, 30, 80}

CycleChoices == {<<>>, <<<<"A", "B">>>>, <<<<"R", "A", "C">>>>}

(* Detected shell chains and fan-out sources: none, R on a chain, R a source *)
RelayChoices ==
    {[shellChains |-> <<>>, fanOutMap |-> {}],
     [shellChains |-> <<<<"R", "B">>>>, fanOutMap |-> {}],
     [shellChains |-> <<>>, fanOutMap |-> {"R"}]}

(* The account collection: every account with one upstream score, or the  *)
(* collection pre-filtered so that R has no record                        *)
ProfileChoices ==
    {[present |-> AccountIds, score |-> s] : s \in Scores}
    \cup {[present |-> AccountIds \ {"R"}, score |-> 30]}

(* The adjacency structure the pipeline builds from the batch *)
BuildGraph(txs) ==
    [s \in {txs[i].sender_id : i \in DOMAIN txs} |->
        [r \in {txs[i].receiver_id : i \in {j \in DOMAIN txs : txs[j].sender_id = s}} |->
            PairIdx(txs, <<s, r>>)]]

(* An account as the upstream detectors leave it *)
UpstreamAccount(id, score, txs) ==
    [account_id |-> id,
     suspicion_score |-> score,
     is_suspicious |-> score > 0,
     detected_patterns |-> IF score > 0 THEN <<"high_velocity">> ELSE <<>>,
     total_transactions |->
         Cardinality({i \in DOMAIN txs : txs[i].sender_id = id \/ txs[i].receiver_id = id}),
     explanation |-> <<Fragment("Upstream", "scored", <<>>, 0, 0, score, <<>>)>>,
     triggered_algorithms |-> <<"pattern_detection">>,
     fan_in_classification |-> Undefined,
     corroboration_checks |-> UndefinedChecks]

InitWith(batches) ==
    /\ transactions \in batches
    /\ graph = BuildGraph(transactions)
    /\ cycles \in CycleChoices
    /\ \E relay \in RelayChoices :
          /\ shellChains = relay.shellChains
          /\ fanOutMap = relay.fanOutMap
    /\ \E profile \in ProfileChoices :
          accounts = [id \in profile.present |->
                         UpstreamAccount(id, profile.score, transactions)]
    /\ accounts0 = accounts
    /\ prev = accounts
    /\ candidates = <<>>
    /\ calls = <<>>

Init == InitWith(SubLists(Ledger))

-----------------------------------------------------------------------------
(* The sort outcomes a call can meet: one when every sort is determined *)

Groups(txs) ==
    {ByReceiver(txs, r) : r \in {txs[i].receiver_id : i \in DOMAIN txs}}
    \cup {PairIdx(txs, key) : key \in PairKeys(txs)}

SortChoices(txs) ==
    IF \/ \A i \in DOMAIN txs : Epoch(txs, i) # NaN
       \/ \A grp \in Groups(txs) : ConsistentKeys(EpochKey(txs), grp)
    THEN {IdentityPerm(txs)}
    ELSE Permutations(DOMAIN txs)

(* One invocation of validateFanInTwoPhase on the current inputs *)
ValidateFanIn ==
    /\ Len(calls) < MaxCalls
    /\ \E perm \in SortChoices(transactions) :
          /\ candidates' = identifyAggregationCandidates(transactions, perm)
          /\ accounts' = validateFanInTwoPhase(accounts, transactions, graph, cycles,
                                               shellChains, fanOutMap, perm)
    /\ prev' = accounts
    /\ calls' = Append(calls, "fan_in")
    /\ UNCHANGED <<transactions, graph, cycles, shellChains, fanOutMap, accounts0>>

(* One invocation of adjustScoresUsingRelationshipIntelligence; the       *)
(* pipeline passes the nodes of the detected cycles as cycleMembers       *)
AdjustScores ==
    /\ Len(calls) < MaxCalls
    /\ \E perm \in SortChoices(transactions) :
          accounts' = adjustScoresUsingRelationshipIntelligence(
                          accounts, transactions, NodesOf(cycles), perm)
    /\ prev' = accounts
    /\ calls' = Append(calls, "relationship")
    /\ UNCHANGED <<transactions, graph, cycles, shellChains, fanOutMap,
                   candidates, accounts0>>

Next == ValidateFanIn \/ AdjustScores

Spec == Init /\ [][Next]_vars

-----------------------------------------------------------------------------
(* The engines on a batch that may hold timestamps that do not parse *)

MalformedLedger ==
    << Tx("A", "R", 2, At(0, 0)),
       Tx("B", "R", 1, At(0, 25)),
       Tx("A", "R", 2, At(30, 25)),
       Tx("C", "R", 1, At(1, 0)),
       Tx("A", "R", 2, At(60, 0)) >>

InitMalformed == InitWith(SubLists(MalformedLedger))

SpecMalformed == InitMalformed /\ [][Next]_vars

-----------------------------------------------------------------------------
(* identifyAggregationCandidates alone, on every listing of up to         *)
(* MaxWindowTx receipts of one account: up to four senders, at hour 0,    *)
(* hour 72 and hour 73, the amount telling the hour.  The function reads  *)
(* sender ids only to tell them apart, so the senders are named in the    *)
(* order of their first receipt in the listing.  It reads the             *)
(* transactions only, so the accounts and the graph are left empty        *)

WindowIds == AccountIds \cup {"D"}

SenderNames == <<"A", "B", "C", "D">>

WindowTimes == {At(0, 0), At(3, 0), At(3, 1)}

AmountAt(ts) == IF ts.day = 0 THEN 1 ELSE 2 + ts.hour

(* Listings of k senders in which each new sender takes the next name *)
SenderListings(k) ==
    {f \in [1..k -> 1..Len(SenderNames)] :
        \A i \in 1..k : \A n \in 1..(f[i] - 1) : \E j \in 1..(i - 1) : f[j] = n}

InitWindow ==
    /\ \E k \in 0..MaxWindowTx :
          \E f \in SenderListings(k), t \in [1..k -> WindowTimes] :
              transactions = [i \in 1..k |-> Tx(SenderNames[f[i]], "R", AmountAt(t[i]), t[i])]
    /\ graph = BuildGraph(<<>>)
    /\ cycles = <<>>
    /\ shellChains = <<>>
    /\ fanOutMap = {}
    /\ accounts = [id \in {} |-> UpstreamAccount(id, 0, transactions)]
    /\ accounts0 = accounts
    /\ prev = accounts
    /\ candidates = <<>>
    /\ calls = <<>>

(* One call of identifyAggregationCandidates on the batch *)
IdentifyCandidates ==
    /\ calls = <<>>
    /\ \E perm \in SortChoices(transactions) :
          candidates' = identifyAggregationCandidates(transactions, perm)
    /\ calls' = <<"identify">>
    /\ UNCHANGED <<accounts, transactions, graph, cycles, shellChains, fanOutMap,
                   prev, accounts0>>

SpecWindow == InitWindow /\ [][IdentifyCandidates]_vars

-----------------------------------------------------------------------------
(* The engines on a candidate R that forwards to intermediaries: R        *)
(* receives from A, B and C within one day, either 5 or 300 in total,     *)
(* and ten days later forwards to D (nothing, 1, 1 + 1 or 290) and to E   *)
(* (nothing or 290).  D forwards to nobody, back to R, on to F, or both;  *)
(* E forwards to nobody or on to F.  D's record is absent or carries 1,   *)
(* 3 or 4 in total_transactions; E's carries 1                            *)

InflowChoices ==
    {<<Tx("A", "R", 3, At(0, 0)), Tx("B", "R", 1, At(0, 5)), Tx("C", "R", 1, At(1, 0))>>,
     <<Tx("A", "R", 100, At(0, 0)), Tx("B", "R", 100, At(0, 5)),
       Tx("C", "R", 100, At(1, 0))>>}

ForwardChoices ==
    {<<>>,
     <<Tx("R", "D", 1, At(10, 0))>>,
     <<Tx("R", "D", 1, At(10, 0)), Tx("R", "D", 1, At(10, 1))>>,
     <<Tx("R", "D", 290, At(10, 0))>>}

OnwardChoices ==
    {<<>>,
     <<Tx("D", "R", 1, At(11, 0))>>,
     <<Tx("D", "F", 1, At(11, 1))>>,
     <<Tx("D", "R", 1, At(11, 0)), Tx("D", "F", 1, At(11, 1))>>}

SecondRelayChoices ==
    {<<>>,
     <<Tx("R", "E", 290, At(10, 2))>>,
     <<Tx("E", "F", 1, At(11, 2))>>,
     <<Tx("R", "E", 290, At(10, 2)), Tx("E", "F", 1, At(11, 2))>>}

ActivityChoices == {1, 3, 4}

ShellIds == AccountIds \cup {"D", "E", "F"}

(* The record of an intermediary, its activity count set by the pipeline *)
IntermediaryAccount(id, activity, txs) ==
    [UpstreamAccount(id, 30, txs) EXCEPT !.total_transactions = activity]

InitShell ==
    /\ \E inflow \in InflowChoices, forward \in ForwardChoices,
          onward \in OnwardChoices, second \in SecondRelayChoices :
            transactions = inflow \o forward \o onward \o second
    /\ graph = BuildGraph(transactions)
    /\ cycles = <<>>
    /\ shellChains = <<>>
    /\ fanOutMap = {}
    /\ \E present \in {ShellIds, ShellIds \ {"D"}}, activity \in ActivityChoices :
          accounts = [id \in present |->
                         IF id = "D" THEN IntermediaryAccount(id, activity, transactions)
                         ELSE IF id = "E" THEN IntermediaryAccount(id, 1, transactions)
                         ELSE UpstreamAccount(id, 30, transactions)]
    /\ accounts0 = accounts
    /\ prev = accounts
    /\ candidates = <<>>
    /\ calls = <<>>

SpecShell == InitShell /\ [][Next]_vars

-----------------------------------------------------------------------------
(* The engines on one recurring pair: A pays R the same amount n times,   *)
(* 3 <= n <= MaxPairTx, every 15 or every 30 days, so that the pair       *)
(* qualifies for every n                                                  *)

PaymentGaps == {15, 30}

Payments(n, gap) == [i \in 1..n |-> Tx("A", "R", 1, At((i - 1) * gap, 0))]

InitRecurring ==
    /\ \E n \in MIN_RECURRING_TX_COUNT..MaxPairTx, gap \in PaymentGaps :
          transactions = Payments(n, gap)
    /\ graph = BuildGraph(transactions)
    /\ cycles = <<>>
    /\ shellChains = <<>>
    /\ fanOutMap = {}
    /\ \E score \in Scores :
          accounts = [id \in {"A", "R"} |-> UpstreamAccount(id, score, transactions)]
    /\ accounts0 = accounts
    /\ prev = accounts
    /\ candidates = <<>>
    /\ calls = <<>>

SpecRecurring == InitRecurring /\ [][Next]_vars

-----------------------------------------------------------------------------
(* The engines on every listing, in every order, of the transactions of   *)
(* a pool in which two receipts of R carry the same timestamp: A, B and   *)
(* C pay R within ten hours, A pays a second time at the hour of C's      *)
(* payment, and R pays D two hours later                                  *)

OrderPool ==
    << Tx("A", "R", 1, At(0, 0)),
       Tx("B", "R", 1, At(0, 0)),
       Tx("C", "R", 1, At(0, 10)),
       Tx("A", "R", 5, At(0, 10)),
       Tx("R", "D", 2, At(0, 12)) >>

OrderIds == AccountIds \cup {"D"}

(* The listings of the pool: each transaction at most once, in any order *)
Listings(pool) ==
    UNION {{f \in [1..k -> DOMAIN pool] : \A i, j \in 1..k : f[i] = f[j] => i = j} :
              k \in 0..Len(pool)}

InitOrder ==
    /\ \E f \in Listings(OrderPool) :
          transactions = [i \in DOMAIN f |-> OrderPool[f[i]]]
    /\ graph = BuildGraph(transactions)
    /\ cycles = <<>>
    /\ shellChains = <<>>
    /\ fanOutMap = {}
    /\ \E score \in Scores :
          accounts = [id \in OrderIds |-> UpstreamAccount(id, score, transactions)]
    /\ accounts0 = accounts
    /\ prev = accounts
    /\ candidates = <<>>
    /\ calls = <<>>

SpecOrder == InitOrder /\ [][Next]_vars

-----------------------------------------------------------------------------
(* Vocabulary of the properties *)

LastCall == IF calls = <<>> THEN "none" ELSE calls[Len(calls)]
AfterFanIn == LastCall = "fan_in"
AfterRI == LastCall = "relationship"

IsPrefix(s, t) == Len(s) <= Len(t) /\ \A i \in DOMAIN s : s[i] = t[i]

NoDuplicates(s) == \A i, j \in DOMAIN s : s[i] = s[j] => i = j

(* The sub-scores an account's pairs yield on the current batch *)
CurrentReduction(id) ==
    AccountReduction(QualifyingPairs(transactions, IdentityPerm(transactions)), id)

Reducible(id) ==
    HasReduction(QualifyingPairs(transactions, IdentityPerm(transactions)), id)

SubScoreSum(r) == r.recurring + r.duration + r.consistency + r.periodicity

(* Two receipts at most 72 hours apart *)
Within72(txs, i, j) ==
    /\ NLe(NSub(Epoch(txs, i), Epoch(txs, j)), 72)
    /\ NLe(NSub(Epoch(txs, j), Epoch(txs, i)), 72)

(* r receives from 3 distinct senders at times that lie within 72 hours *)
HasSenderGroup(txs, r) ==
    LET incoming == {n \in DOMAIN txs : txs[n].receiver_id = r}
    IN  \E i \in incoming :
            \E j \in incoming :
                /\ txs[j].sender_id # txs[i].sender_id
                /\ Within72(txs, i, j)
                /\ \E k \in incoming :
                      /\ txs[k].sender_id \notin {txs[i].sender_id, txs[j].sender_id}
                      /\ Within72(txs, i, k)
                      /\ Within72(txs, j, k)

-----------------------------------------------------------------------------
(* C1: both engines are idempotent: a second invocation in a row, with    *)
(* the same arguments, leaves every account as the first one left it.     *)
(* The code appends a second explanation fragment in both engines and     *)
(* lowers a still-positive score a second time: the statement is violated *)
C1_Idempotent ==
    (Len(calls) >= 2 /\ calls[Len(calls)] = calls[Len(calls) - 1])
        => accounts = prev

(* C2: one invocation of the relationship engine takes a non-negative     *)
(* score s to s' with max(0, s - 50) <= s' <= s                           *)
C2_ScoreBounds ==
    AfterRI =>
        \A id \in DOMAIN accounts :
            prev[id].suspicion_score >= 0 =>
                /\ accounts[id].suspicion_score <= prev[id].suspicion_score
                /\ accounts[id].suspicion_score >= 0
                /\ accounts[id].suspicion_score >= prev[id].suspicion_score - 50

(* C2 witness: sub-scores that sum to more than 50 were applied to a      *)
(* score of 80, and to a score of 30 that the floor holds at zero         *)
C2_Witness ==
    /\ AfterRI
    /\ \E id \in DOMAIN accounts :
          /\ SubScoreSum(CurrentReduction(id)) > 50
          /\ prev[id].suspicion_score = 80
          /\ accounts[id].suspicion_score = 30

(* C3: the relationship engine leaves every field of every cycle member   *)
(* unchanged, whatever pairs the member takes part in                     *)
C3_CycleImmunity ==
    AfterRI =>
        \A id \in DOMAIN accounts \cap NodesOf(cycles) : accounts[id] = prev[id]

(* C3 witness: a cycle member with a positive score and a qualifying pair *)
(* kept its record in a call that lowered the score of its counterparty   *)
C3_Witness ==
    /\ AfterRI
    /\ \E id \in DOMAIN accounts \cap NodesOf(cycles), other \in DOMAIN accounts :
          /\ Reducible(id)
          /\ prev[id].suspicion_score > 0
          /\ other \notin NodesOf(cycles)
          /\ accounts[other].suspicion_score < prev[other].suspicion_score

(* C4: an account with no 3 distinct senders within 72 hours keeps its    *)
(* fan_in_classification, corroboration_checks, explanation and           *)
(* triggered_algorithms through validateFanInTwoPhase                     *)
C4_NoFabrication ==
    AfterFanIn =>
        \A id \in DOMAIN accounts :
            ~HasSenderGroup(transactions, id) =>
                /\ accounts[id].fan_in_classification = prev[id].fan_in_classification
                /\ accounts[id].corroboration_checks = prev[id].corroboration_checks
                /\ accounts[id].explanation = prev[id].explanation
                /\ accounts[id].triggered_algorithms = prev[id].triggered_algorithms

(* C4 witness: an account that received from 3 distinct senders, but      *)
(* never 3 within 72 hours, went through the engine unclassified          *)
C4_Witness ==
    /\ AfterFanIn
    /\ \E id \in DOMAIN accounts :
          /\ Cardinality({transactions[i].sender_id :
                 i \in {n \in DOMAIN transactions : transactions[n].receiver_id = id}}) >= 3
          /\ ~HasSenderGroup(transactions, id)
          /\ accounts[id].fan_in_classification = Undefined

(* The four check names in the order the engine evaluates them *)
CanonicalChecks ==
    <<"shell_chain_involvement", "cycle_ring_participation",
      "rapid_layered_outflow", "role_conflict">>

RECURSIVE Restrict(_, _)
Restrict(s, keep) ==
    IF s = <<>> THEN <<>>
    ELSE (IF Head(s) \in keep THEN <<Head(s)>> ELSE <<>>) \o Restrict(Tail(s), keep)

Classified(id) == accounts[id].fan_in_classification # Undefined

(* C5: a classified account's corroboration_checks is a sub-list of the   *)
(* four names in canonical order without repeats, and it is               *)
(* confirmed_money_laundering exactly when that list is non-empty,        *)
(* aggregation_candidate exactly when it is empty                         *)
C5_ChecksAndClass ==
    \A id \in DOMAIN accounts :
        Classified(id) =>
            LET checks == accounts[id].corroboration_checks
            IN  /\ Range(checks) \subseteq Range(CanonicalChecks)
                /\ checks = Restrict(CanonicalChecks, Range(checks))
                /\ accounts[id].fan_in_classification
                       \in {"confirmed_money_laundering", "aggregation_candidate"}
                /\ (accounts[id].fan_in_classification = "confirmed_money_laundering")
                       <=> (checks # <<>>)
                /\ (accounts[id].fan_in_classification = "aggregation_candidate")
                       <=> (checks = <<>>)

(* C5 witness: the engine has classified one batch's receiver with all    *)
(* four checks triggered                                                  *)
C5_Witness ==
    /\ AfterFanIn
    /\ \E id \in DOMAIN accounts :
          /\ prev[id].fan_in_classification = Undefined
          /\ accounts[id].corroboration_checks = CanonicalChecks

(* C6: no account's triggered_algorithms ever holds a name twice.  The    *)
(* relationship engine pushes its name without looking for it, so a       *)
(* second reducing call violates the statement                            *)
C6_NoDuplicateAlgorithms ==
    \A id \in DOMAIN accounts : NoDuplicates(accounts[id].triggered_algorithms)

(* C7: the fan-in engine never changes suspicion_score, is_suspicious,    *)
(* detected_patterns or total_transactions; the relationship engine never *)
(* changes fan_in_classification, corroboration_checks, detected_patterns *)
(* or total_transactions; in both the old explanation and the old         *)
(* triggered_algorithms are prefixes of the new ones                      *)
C7_FieldOwnership ==
    calls # <<>> =>
        /\ DOMAIN accounts = DOMAIN prev
        /\ \A id \in DOMAIN accounts :
              /\ accounts[id].account_id = prev[id].account_id
              /\ accounts[id].detected_patterns = prev[id].detected_patterns
              /\ accounts[id].total_transactions = prev[id].total_transactions
              /\ IsPrefix(prev[id].explanation, accounts[id].explanation)
              /\ IsPrefix(prev[id].triggered_algorithms, accounts[id].triggered_algorithms)
              /\ AfterFanIn =>
                    /\ accounts[id].suspicion_score = prev[id].suspicion_score
                    /\ accounts[id].is_suspicious = prev[id].is_suspicious
              /\ AfterRI =>
                    /\ accounts[id].fan_in_classification = prev[id].fan_in_classification
                    /\ accounts[id].corroboration_checks = prev[id].corroboration_checks

(* C7 witness: the relationship engine lowered the score of an account    *)
(* the fan-in engine had classified as confirmed in the call before       *)
C7_Witness ==
    /\ calls = <<"fan_in", "relationship">>
    /\ \E id \in DOMAIN accounts :
          /\ accounts[id].fan_in_classification = "confirmed_money_laundering"
          /\ accounts[id].suspicion_score < prev[id].suspicion_score
          /\ Len(accounts[id].explanation) = Len(accounts0[id].explanation) + 2

(* The two engines run from the constructed accounts in the given order *)
FanInThenRI ==
    adjustScoresUsingRelationshipIntelligence(
        validateFanInTwoPhase(accounts0, transactions, graph, cycles, shellChains,
                              fanOutMap, IdentityPerm(transactions)),
        transactions, NodesOf(cycles), IdentityPerm(transactions))

RIThenFanIn ==
    validateFanInTwoPhase(
        adjustScoresUsingRelationshipIntelligence(
            accounts0, transactions, NodesOf(cycles), IdentityPerm(transactions)),
        transactions, graph, cycles, shellChains, fanOutMap, IdentityPerm(transactions))

SameOutcome(a, b) ==
    /\ DOMAIN a = DOMAIN b
    /\ \A id \in DOMAIN a :
          /\ a[id].fan_in_classification = b[id].fan_in_classification
          /\ a[id].corroboration_checks = b[id].corroboration_checks
          /\ a[id].suspicion_score = b[id].suspicion_score
          /\ a[id].is_suspicious = b[id].is_suspicious
          /\ Range(a[id].explanation) = Range(b[id].explanation)
          /\ Len(a[id].explanation) = Len(b[id].explanation)
          /\ Range(a[id].triggered_algorithms) = Range(b[id].triggered_algorithms)

(* C8: the engines commute on their owned fields: the accounts reached by *)
(* running one order have the fan_in_classification, corroboration_checks,*)
(* suspicion_score and is_suspicious the opposite order gives, and the    *)
(* same explanation fragments and algorithm names                         *)
C8_Commute ==
    /\ calls = <<"fan_in", "relationship">> => SameOutcome(accounts, RIThenFanIn)
    /\ calls = <<"relationship", "fan_in">> => SameOutcome(accounts, FanInThenRI)

(* C8 witness: both engines have changed the same account *)
C8_Witness ==
    /\ calls = <<"relationship", "fan_in">>
    /\ \E id \in DOMAIN accounts :
          /\ accounts[id].fan_in_classification = "confirmed_money_laundering"
          /\ accounts[id].suspicion_score < accounts0[id].suspicion_score
          /\ accounts[id].suspicion_score > 0

(* C9: with a timestamp that does not parse in the batch, an engine       *)
(* raises instead of computing, and no account is mutated.  Neither       *)
(* engine has a validation step: getTime() yields NaN and the call runs   *)
(* to completion on it, so the statement is violated                      *)
C9_FailFast ==
    (calls # <<>> /\ \E i \in DOMAIN transactions : Epoch(transactions, i) = NaN)
        => accounts = accounts0

(* The distinct senders among r's incoming transactions in [from, from+72] *)
SendersWithin(txs, r, from) ==
    {txs[i].sender_id :
        i \in {n \in DOMAIN txs :
                  /\ txs[n].receiver_id = r
                  /\ Epoch(txs, n) >= from
                  /\ Epoch(txs, n) <= from + 72}}

(* The largest distinct-sender count of a 72-hour window of r's receipts *)
MaxWindowSenders(txs, r) ==
    SetMax({Cardinality(SendersWithin(txs, r, Epoch(txs, i))) :
               i \in {n \in DOMAIN txs : txs[n].receiver_id = r}})

(* r's receipts whose time lies within the candidate's bounds *)
ReceiptsWithin(txs, r, c) ==
    {i \in DOMAIN txs :
        /\ txs[i].receiver_id = r
        /\ Epoch(txs, i) >= c.windowStart
        /\ Epoch(txs, i) <= c.windowEnd}

(* W is a window of the receipts `inside` the candidate's bounds: it      *)
(* holds receipts at both bounds and everything strictly between them     *)
IsWindowOf(txs, inside, c, W) ==
    /\ W \subseteq inside
    /\ \E i \in W : Epoch(txs, i) = c.windowStart
    /\ \E i \in W : Epoch(txs, i) = c.windowEnd
    /\ \A i \in inside \ W :
          Epoch(txs, i) = c.windowStart \/ Epoch(txs, i) = c.windowEnd

CandidatesOf(r) == {k \in DOMAIN candidates : candidates[k].accountId = r}

-----------------------------------------------------------------------------
(* The amounts that `from` sends to `to` in the batch, summed *)
SentTo(txs, from, to) ==
    SumAmounts(txs, FilterIdx(Len(txs),
        {i \in DOMAIN txs : txs[i].sender_id = from /\ txs[i].receiver_id = to}, 1))

(* N is an intermediary of candidate c with T received: it has a record   *)
(* with at most 3 transactions, c sends it at least 0.4 x T, and it sends *)
(* to an account other than c                                             *)
IsIntermediary(txs, accts, c, T, N) ==
    /\ N \in DOMAIN accts
    /\ \E i \in DOMAIN txs : txs[i].sender_id = c /\ txs[i].receiver_id = N
    /\ accts[N].total_transactions <= 3
    /\ 5 * SentTo(txs, c, N) >= 2 * T
    /\ \E i \in DOMAIN txs : txs[i].sender_id = N /\ txs[i].receiver_id # c

ShellChainFlagged(id) ==
    /\ accounts[id].corroboration_checks # UndefinedChecks
    /\ "shell_chain_involvement" \in Range(accounts[id].corroboration_checks)

(* The scenario: R received 300 and forwards 290 to D, whose record       *)
(* carries total_transactions = 1 and which forwards on to F              *)
ForwardsThroughShell ==
    /\ \E k \in DOMAIN candidates :
          candidates[k].accountId = "R" /\ candidates[k].totalReceived = 300
    /\ SentTo(transactions, "R", "D") = 290
    /\ "D" \in DOMAIN accounts
    /\ accounts["D"].total_transactions = 1
    /\ \E i \in DOMAIN transactions :
          transactions[i].sender_id = "D" /\ transactions[i].receiver_id = "F"

-----------------------------------------------------------------------------
(* The recurring_pair points the last explanation fragment reports *)
ReportedRecurring(id) ==
    LET parts == accounts[id].explanation[Len(accounts[id].explanation)].parts
        named == {k \in DOMAIN parts : parts[k].name = "recurring_pair"}
    IN  IF named = {} THEN 0 ELSE parts[CHOOSE k \in named : TRUE].value

(* The largest number of transactions in a qualifying pair of id *)
PairCount(id) ==
    SetMax({Len(st.amounts) :
               st \in {q \in QualifyingPairs(transactions, IdentityPerm(transactions)) :
                           q.sender = id \/ q.receiver = id}})

(* C12: the recurring sub-score of a qualifying pair of n transactions is *)
(* 10 at n = 3, 17 at n = 6 and 25 for every n >= 10, is non-decreasing   *)
(* in n and never exceeds 25.  The code rounds 10 + 3/7 x 15 = 16.43 to   *)
(* 16 at n = 6: the statement is violated                                 *)
C12_RecurringScore ==
    AfterRI =>
        \A id \in DOMAIN accounts :
            accounts[id] # prev[id] =>
                LET n == PairCount(id)
                    v == ReportedRecurring(id)
                IN  /\ n = 3 => v = 10
                    /\ n = 6 => v = 17
                    /\ n >= 10 => v = 25
                    /\ v <= 25
                    /\ \A m \in MIN_RECURRING_TX_COUNT..n : RecurringReduction(m) <= v

-----------------------------------------------------------------------------
(* The batch listed in the order p *)
Relisted(txs, p) == [i \in DOMAIN txs |-> txs[p[i]]]

(* What a candidate list says of windows and totals, whatever its order *)
WindowsOf(cands) ==
    {[accountId |-> cands[k].accountId,
      windowStart |-> cands[k].windowStart,
      windowEnd |-> cands[k].windowEnd,
      totalReceived |-> cands[k].totalReceived] : k \in DOMAIN cands}

(* C13: the fan-in engine's result does not depend on the listing order   *)
(* of the batch: on every permutation of the transactions, with the       *)
(* other arguments equal, each account gets the same                      *)
(* fan_in_classification and corroboration_checks, and each candidate     *)
(* the same window and totalReceived.  The code keeps receipts of equal   *)
(* timestamp in listing order and takes the first best window by index:   *)
(* the statement is violated                                              *)
C13_OrderIndependence ==
    AfterFanIn =>
        \A p \in Permutations(DOMAIN transactions) :
            LET txs == Relisted(transactions, p)
                other == validateFanInTwoPhase(prev, txs, BuildGraph(txs), cycles,
                                               shellChains, fanOutMap, IdentityPerm(txs))
            IN  /\ \A id \in DOMAIN accounts :
                      /\ other[id].fan_in_classification
                            = accounts[id].fan_in_classification
                      /\ other[id].corroboration_checks
                            = accounts[id].corroboration_checks
                /\ WindowsOf(identifyAggregationCandidates(txs, IdentityPerm(txs)))
                      = WindowsOf(candidates)

====
